---- MODULE Spec2Model ----
(***************************************************************************)
(* State-machine model of src/server.js: the in-memory session of the      *)
(* social-deduction game server (registry of players, role assignment,     *)
(* sabotage and kill cooldown, meetings and votes, win evaluation, round   *)
(* timer, deferred lobby reset).                                           *)
(*                                                                         *)
(* Every socket.io handler is a function from a world record to a world    *)
(* record, named as in the source; an action applies one handler to the    *)
(* current world.  Node runs one callback at a time, so a handler together *)
(* with everything it calls is one atomic step.                            *)
(*                                                                         *)
(* Not modelled: the display colour of a player and the four relays that   *)
(* write no state (task-progress, trigger-sabotage, chat-message,          *)
(* request-game-state).                                                    *)
(***************************************************************************)
EXTENDS Integers, Sequences, FiniteSets, TLC

VARIABLES
  players,         \* gameState.players: socket id -> player object
  order,           \* insertion order of the keys of gameState.players
  killCooldowns,   \* gameState.killCooldowns: socket id -> clock units since its last kill, while below the window
  gameTimer,       \* gameState.gameTimer: handle of the round interval, 0 is null
  timeRemaining,   \* gameState.timeRemaining
  intervals,       \* live setInterval timers of the runtime: [h, wait]
  meetingTimeouts, \* pending setTimeout of startEmergencyMeeting: waits, FIFO
  lobbyResets,     \* pending setTimeout of endGame: [wait, captured], FIFO
  closed,          \* socket ids that can emit nothing (any more)
  out,             \* what the last callback emitted, in order
  last,            \* history: the last callback that did anything, with its arguments
  victim           \* history: socket id -> the player whose kill its kill record stands for

vars == <<players, order, killCooldowns, gameTimer, timeRemaining, intervals,
          meetingTimeouts, lobbyResets, closed, out, last, victim>>

----------------------------------------------------------------------------
(* Values *)

Null == "null"                       \* null / undefined
Sockets == {"A", "B", "C", "D", "E"}   \* socket ids
Lobby3 == {"A", "B", "C"}            \* the sockets that connect in Spec

(* Time is relative to the current instant: a timer holds the clock units  *)
(* left until it fires, and a kill record the clock units since the kill,   *)
(* Date.now() - lastKillTime.  A record as old as the cooldown window reads *)
(* like no record (cooldownRemaining <= 0) and is dropped.                  *)
(* Time is scaled: one second is MsPerSec clock units, and the durations of *)
(* the source (300 s round, 90 s meeting, 30 s cooldown, 15 s grace) are    *)
(* shortened, keeping grace < cooldown < meeting < round.                   *)
MsPerSec == 2
GraceSeconds == 1
CooldownSeconds == GraceSeconds + 1
MeetingSeconds == CooldownSeconds + 1
RoundSeconds == MeetingSeconds + 1
CooldownMs == CooldownSeconds * MsPerSec
MaxMeetings == 1                     \* cap on pending meeting timeouts
MaxResets == 2                       \* cap on pending lobby resets

TotalTasks == 3                      \* tasks per crewmate / completion threshold
KillThreshold == 3                   \* sabotage hits that kill
GuardThreshold == 2                  \* sabotage count at which the cooldown guard engages

CREWMATE_TASKS == <<"network", "phishing", "firewall", "encryption", "backup">>

Range(f) == {f[i] : i \in DOMAIN f}
Registry(w) == DOMAIN w.players
SeqWithout(s, x) == SelectSeq(s, LAMBDA y : y # x)
CeilDiv_m(a, b) == a \div b                \* mutant: rounds down
CeilDiv(a, b) == (a + b - 1) \div b        \* Math.ceil(a / b) for a > 0

freshProgress ==
  [tasksCompleted |-> 0,
   task1 |-> [completed |-> FALSE, data |-> Null],
   task2 |-> [completed |-> FALSE, data |-> Null],
   task3 |-> [completed |-> FALSE, data |-> Null]]

newPlayer(name, tasks) ==
  [name |-> name, role |-> Null, isAlive |-> TRUE, tasks |-> tasks,
   sabotageCount |-> 0, taskProgress |-> freshProgress, vote |-> Null]

(* getRandomTasks(3): any 3 distinct catalog entries in any order *)
getRandomTasks ==
  {<<CREWMATE_TASKS[i], CREWMATE_TASKS[j], CREWMATE_TASKS[k]>> :
     <<i, j, k>> \in {t \in (1..5) \X (1..5) \X (1..5) :
                        t[1] # t[2] /\ t[1] # t[3] /\ t[2] # t[3]}}

(* the round-scoped fields as start-game and the lobby reset write them *)
roundReset(p, role) ==
  [p EXCEPT !.role = role, !.isAlive = TRUE, !.sabotageCount = 0,
            !.vote = Null, !.taskProgress = freshProgress]

emit(w, e) == [w EXCEPT !.out = Append(@, e)]

roster(w) == [i \in 1..Len(w.order) |->
                [id |-> w.order[i], name |-> w.players[w.order[i]].name,
                 role |-> w.players[w.order[i]].role,
                 isAlive |-> w.players[w.order[i]].isAlive]]

broadcastPlayerList(w) ==
  emit(w, [type |-> "player-list-update", to |-> "main", players |-> w.order])

----------------------------------------------------------------------------
(* Timers of the runtime *)

clearInterval(w, h) ==
  [w EXCEPT !.intervals = {t \in @ : t.h # h}]

freshHandle(w) ==
  CHOOSE h \in 1..(Cardinality(w.intervals) + 1) :
    /\ \A t \in w.intervals : t.h # h
    /\ \A k \in 1..(h - 1) : \E t \in w.intervals : t.h = k


(* mutant: the timer that runs is not cancelled *)
startGameTimer_m(w) ==
  LET w1 == [w EXCEPT !.timeRemaining = RoundSeconds]
      h  == freshHandle(w1)
  IN  [w1 EXCEPT !.gameTimer = h,
                 !.intervals = @ \cup {[h |-> h, wait |-> MsPerSec]}]

(* startGameTimer *)
startGameTimer(w) ==
  LET w1 == clearInterval([w EXCEPT !.timeRemaining = RoundSeconds], w.gameTimer)
      h  == freshHandle(w1)
  IN  [w1 EXCEPT !.gameTimer = h,
                 !.intervals = @ \cup {[h |-> h, wait |-> MsPerSec]}]

(* endGame: stop the timer, broadcast, schedule the lobby reset of the     *)
(* player objects that are in the registry now                             *)
endGame(w, winners, reason) ==
  LET w1 == [clearInterval(w, w.gameTimer) EXCEPT !.gameTimer = 0]
      w2 == emit(w1, [type |-> "game-ended", to |-> "main", winners |-> winners,
                      reason |-> reason, players |-> roster(w1)])
  IN  [w2 EXCEPT !.lobbyResets =
         Append(@, [wait |-> GraceSeconds * MsPerSec,
                    captured |-> Registry(w)])]

----------------------------------------------------------------------------
(* Win evaluation *)

(* mutant: crewmates count whether alive or not *)
aliveCrewmates_m(w) ==
  {p \in Registry(w) : w.players[p].role = "crewmate"}

aliveCrewmates(w) ==
  {p \in Registry(w) : w.players[p].isAlive /\ w.players[p].role = "crewmate"}
aliveImpostors(w) ==
  {p \in Registry(w) : w.players[p].isAlive /\ w.players[p].role = "impostor"}
allTasksCompleted(w) ==
  \A p \in Registry(w) :
     w.players[p].role = "crewmate"
       => w.players[p].taskProgress.tasksCompleted >= TotalTasks

(* mutant: the task rule is tried before the outnumber rule *)
gameResult_m(w) ==
  LET r1 == IF Cardinality(aliveImpostors(w)) = 0
              THEN [winner |-> "crewmates", reason |-> "All impostors eliminated"]
            ELSE IF allTasksCompleted(w)
              THEN [winner |-> "crewmates", reason |-> "All tasks completed"]
            ELSE IF Cardinality(aliveImpostors(w)) >= Cardinality(aliveCrewmates(w))
              THEN [winner |-> "impostor", reason |-> "Impostors outnumber crewmates"]
            ELSE [winner |-> Null, reason |-> ""]
  IN  IF w.timeRemaining <= 0 /\ r1.winner = Null
        THEN [winner |-> "impostor", reason |-> "Time ran out"]
        ELSE r1

(* the winner and reason that checkGameEnd computes *)
gameResult(w) ==
  LET r1 == IF Cardinality(aliveImpostors(w)) = 0
              THEN [winner |-> "crewmates", reason |-> "All impostors eliminated"]
            ELSE IF Cardinality(aliveImpostors(w)) >= Cardinality(aliveCrewmates(w))
              THEN [winner |-> "impostor", reason |-> "Impostors outnumber crewmates"]
            ELSE IF allTasksCompleted(w)
              THEN [winner |-> "crewmates", reason |-> "All tasks completed"]
            ELSE [winner |-> Null, reason |-> ""]
  IN  IF w.timeRemaining <= 0 /\ r1.winner = Null
        THEN [winner |-> "impostor", reason |-> "Time ran out"]
        ELSE r1

checkGameEnd(w) ==
  LET r == gameResult(w)
  IN  IF r.winner # Null THEN endGame(w, r.winner, r.reason) ELSE w

----------------------------------------------------------------------------
(* Registry: join-lobby and disconnect *)

(* a player object that leaves the registry is no longer the object a     *)
(* pending lobby reset holds: the reset can no longer reach the registry   *)
(* through it                                                              *)
forget(resets, s) ==
  [i \in 1..Len(resets) |-> [resets[i] EXCEPT !.captured = @ \ {s}]]

mapSet(w, s, player) ==
  [w EXCEPT !.players = [q \in Registry(w) \cup {s} |->
                           IF q = s THEN player ELSE w.players[q]],
            !.order = IF s \in Registry(w) THEN @ ELSE Append(@, s),
            !.lobbyResets = forget(@, s)]

mapDelete(w, s) ==
  [w EXCEPT !.players = [q \in Registry(w) \ {s} |-> w.players[q]],
            !.order = SeqWithout(@, s),
            !.lobbyResets = forget(@, s)]

joinLobby(w, s, name, tasks) ==
  broadcastPlayerList(mapSet(w, s, newPlayer(name, tasks)))

stopsTimer_m(w) == Len(w.order) <= 1                \* mutant: stops with one player left
stopsTimer(w) == Len(w.order) = 0

disconnect(w, s) ==
  IF s \notin Registry(w) THEN w
  ELSE
    LET w1 == emit(w, [type |-> "player-disconnected", to |-> "main",
                       playerId |-> s, playerName |-> w.players[s].name])
        w2 == broadcastPlayerList(mapDelete(w1, s))
    IN  IF stopsTimer(w2)
          THEN [clearInterval(w2, w2.gameTimer) EXCEPT !.gameTimer = 0]
          ELSE w2

----------------------------------------------------------------------------
(* start-game *)

impostorCount_m(n) == IF n >= 1 THEN 1 ELSE 0       \* mutant: threshold off by one
impostorCount(n) == IF n >= 2 THEN 1 ELSE 0

(* the outcomes of the Math.random loop: impostorCount distinct indices *)
impostorDraws(n) ==
  {ix \in SUBSET (1..n) : Cardinality(ix) = impostorCount(n)}

assignRoles(w, impostorIndices) ==
  [w EXCEPT !.players =
     [q \in Registry(w) |->
        LET i == CHOOSE k \in 1..Len(w.order) : w.order[k] = q
        IN  roundReset(w.players[q],
                       IF i \in impostorIndices THEN "impostor" ELSE "crewmate")]]

RECURSIVE notifyRoles(_, _)
notifyRoles(w, i) ==
  IF i > Len(w.order) THEN w
  ELSE
    LET id == w.order[i]
        p  == w.players[id]
        w1 == emit(w, [type |-> "game-started", to |-> id, role |-> p.role,
                       tasks |-> p.tasks, players |-> roster(w)])
        w2 == IF p.role = "crewmate"
                THEN emit(w1, [type |-> "restore-task-progress", to |-> id,
                               taskProgress |-> p.taskProgress])
                ELSE w1
    IN  notifyRoles(w2, i + 1)

startGame(w, impostorIndices) ==
  IF Len(w.order) >= 1
    THEN notifyRoles(startGameTimer(assignRoles(w, impostorIndices)), 1)
    ELSE w

----------------------------------------------------------------------------
(* Tasks *)

saveTaskProgress(w, s, tp) ==
  IF s \in Registry(w) /\ w.players[s].role = "crewmate"
    THEN LET w1 == [w EXCEPT !.players[s].taskProgress = tp]
         IN  IF tp.tasksCompleted >= TotalTasks THEN checkGameEnd(w1) ELSE w1
    ELSE w

taskCompleted(w, s, n) ==
  IF s \in Registry(w) /\ w.players[s].role = "crewmate"
    THEN checkGameEnd(
           emit([w EXCEPT !.players[s].taskProgress.tasksCompleted = n],
                [type |-> "task-completed-update", to |-> "main", playerId |-> s,
                 tasksCompleted |-> n, totalTasks |-> TotalTasks]))
    ELSE w

----------------------------------------------------------------------------
(* Sabotage *)

(* Date.now() - lastKillTime; without a record lastKillTime is 0 and the   *)
(* difference is beyond any window                                         *)
sinceLastKill_m(w, s) == CooldownMs      \* mutant: the kill record is not read

sinceLastKill(w, s) ==
  IF s \in DOMAIN w.killCooldowns THEN w.killCooldowns[s] ELSE CooldownMs

cooldownRemaining(w, s) == CooldownMs - sinceLastKill(w, s)

(* mutant: the guard waits for the elimination threshold *)
guardEngages_m(w, s, t) ==
  cooldownRemaining(w, s) > 0 /\ w.players[t].sabotageCount >= KillThreshold

guardEngages(w, s, t) ==
  cooldownRemaining(w, s) > 0 /\ w.players[t].sabotageCount >= GuardThreshold

attemptSabotage(w, s, t) ==
  IF /\ s \in Registry(w) /\ w.players[s].role = "impostor"
     /\ t \in Registry(w) /\ w.players[t].role = "crewmate"
  THEN
    IF guardEngages(w, s, t)
    THEN emit(w, [type |-> "kill-cooldown", to |-> s,
                  remaining |-> CeilDiv(cooldownRemaining(w, s), MsPerSec)])
    ELSE
      LET w1 == [w EXCEPT !.players[t].sabotageCount = @ + 1]
          w2 == emit(w1, [type |-> "sabotage-attempt", to |-> "main",
                          impostor |-> s, target |-> t,
                          sabotageCount |-> w1.players[t].sabotageCount])
      IN  IF w2.players[t].sabotageCount >= KillThreshold
          THEN
            LET w3 == [w2 EXCEPT !.players[t].isAlive = FALSE,
                                 !.killCooldowns =
                                    [q \in DOMAIN w2.killCooldowns \cup {s} |->
                                       IF q = s THEN 0 ELSE w2.killCooldowns[q]],
                                 !.victim =
                                    [q \in DOMAIN w2.victim \cup {s} |->
                                       IF q = s THEN t ELSE w2.victim[q]]]
                w4 == emit(w3, [type |-> "player-killed", to |-> "main",
                                playerId |-> t, killer |-> s])
                w5 == emit(w4, [type |-> "kill-cooldown-active", to |-> s,
                                duration |-> CooldownSeconds])
            IN  checkGameEnd(w5)
          ELSE w2
  ELSE w


----------------------------------------------------------------------------
(* Meetings and votes *)

startEmergencyMeeting(w) ==
  LET alivePlayers == SelectSeq(w.order, LAMBDA p : w.players[p].isAlive)
      w1 == [w EXCEPT !.players = [q \in Registry(w) |->
                                     [w.players[q] EXCEPT !.vote = Null]]]
      w2 == emit(w1, [type |-> "emergency-meeting-started", to |-> "main",
                      players |-> alivePlayers, duration |-> MeetingSeconds])
  IN  [w2 EXCEPT !.meetingTimeouts = Append(@, MeetingSeconds * MsPerSec)]

(* the ballots in registry order, and the keys of the votes object in the  *)
(* order in which the forEach of processVotes creates them                 *)
ballots(w) == SelectSeq(w.order, LAMBDA p : w.players[p].vote # Null)

RECURSIVE voteKeys(_, _)
voteKeys(w, i) ==
  IF i = 0 THEN <<>>
  ELSE LET keys == voteKeys(w, i - 1)
           v    == w.players[ballots(w)[i]].vote
       IN  IF v \in Range(keys) THEN keys ELSE Append(keys, v)

votesOf(w) ==
  [t \in Range(voteKeys(w, Len(ballots(w)))) |->
     Cardinality({p \in Registry(w) : w.players[p].vote = t})]

votersOf(w) ==
  [p \in Range(ballots(w)) |-> w.players[p].vote]

(* mutant: a later target with as many votes takes the lead *)
tallyStep_m(acc, playerId, voteCount) ==
  IF voteCount >= acc.maxVotes
    THEN [maxVotes |-> voteCount, ejectedPlayerId |-> playerId, tie |-> FALSE]
  ELSE acc

(* one iteration of the Object.entries(votes).forEach of processVotes *)
tallyStep(acc, playerId, voteCount) ==
  IF voteCount > acc.maxVotes
    THEN [maxVotes |-> voteCount, ejectedPlayerId |-> playerId, tie |-> FALSE]
  ELSE IF voteCount = acc.maxVotes /\ acc.maxVotes > 0
    THEN [acc EXCEPT !.tie = TRUE]
  ELSE acc

RECURSIVE tallyScan(_, _, _)
tallyScan(votes, keys, i) ==
  IF i = 0 THEN [maxVotes |-> 0, ejectedPlayerId |-> Null, tie |-> FALSE]
  ELSE tallyStep(tallyScan(votes, keys, i - 1), keys[i], votes[keys[i]])

tally(w) ==
  LET keys == voteKeys(w, Len(ballots(w)))
  IN  tallyScan(votesOf(w), keys, Len(keys))

clearVotes(w) ==
  [w EXCEPT !.players = [q \in Registry(w) |-> [w.players[q] EXCEPT !.vote = Null]]]

processVotes(w) ==
  LET d  == tally(w)
      w1 == IF d.ejectedPlayerId # Null /\ d.maxVotes > 0 /\ ~d.tie
            THEN
              IF d.ejectedPlayerId \in Registry(w)
              THEN checkGameEnd(
                     emit([w EXCEPT !.players[d.ejectedPlayerId].isAlive = FALSE],
                          [type |-> "player-ejected", to |-> "main",
                           playerId |-> d.ejectedPlayerId,
                           role |-> w.players[d.ejectedPlayerId].role,
                           votes |-> votesOf(w), voters |-> votersOf(w)]))
              ELSE w
            ELSE emit(w, [type |-> "no-one-ejected", to |-> "main",
                          tie |-> d.tie, votes |-> votesOf(w)])
  IN  clearVotes(w1)

reportBody(w, s) ==
  IF s \in Registry(w) /\ w.players[s].isAlive
    THEN startEmergencyMeeting(
           emit(w, [type |-> "body-reported", to |-> "main", reporter |-> s]))
    ELSE w

emergencyMeeting(w, s) ==
  IF s \in Registry(w) /\ w.players[s].isAlive
    THEN startEmergencyMeeting(w)
    ELSE w

(* mutant: one ballot is enough to resolve *)
allVoted_m(w) ==
  \E p \in Registry(w) : w.players[p].isAlive /\ w.players[p].vote # Null

allVoted(w) ==
  LET alivePlayers == {p \in Registry(w) : w.players[p].isAlive}
      votedPlayers == {p \in alivePlayers : w.players[p].vote # Null}
  IN  Cardinality(votedPlayers) = Cardinality(alivePlayers)

submitVote(w, s, votedFor) ==
  IF s \in Registry(w) /\ w.players[s].isAlive
    THEN LET w1 == emit([w EXCEPT !.players[s].vote = votedFor],
                        [type |-> "vote-submitted", to |-> "main", playerId |-> s])
         IN  IF allVoted(w1) THEN processVotes(w1) ELSE w1
    ELSE w

----------------------------------------------------------------------------
(* Timer callbacks *)

(* the setTimeout callback of startEmergencyMeeting *)
meetingTimeout(w) ==
  LET w1 == [w EXCEPT !.meetingTimeouts = Tail(@)]
  IN  IF Len(w1.order) > 0 THEN processVotes(w1) ELSE w1

(* the setTimeout callback of endGame *)
lobbyReset(w) ==
  LET r  == Head(w.lobbyResets)
      w1 == [w EXCEPT !.lobbyResets = Tail(@),
                      !.players = [q \in Registry(w) |->
                                     IF q \in r.captured
                                       THEN roundReset(w.players[q], Null)
                                       ELSE w.players[q]]]
  IN  emit(w1, [type |-> "return-to-lobby", to |-> "main"])

(* mutant: the tick leaves the remaining time as it is *)
roundTick_m(w, t) ==
  LET w1 == [w EXCEPT !.intervals = (@ \ {t}) \cup {[t EXCEPT !.wait = MsPerSec]}]
  IN  emit(w1, [type |-> "game-timer-update", to |-> "main",
                timeRemaining |-> w1.timeRemaining,
                minutes |-> w1.timeRemaining \div 60,
                seconds |-> w1.timeRemaining % 60])

(* the setInterval callback of startGameTimer, for the live interval t *)
roundTick(w, t) ==
  LET w1 == [w EXCEPT !.intervals = (@ \ {t}) \cup {[t EXCEPT !.wait = MsPerSec]},
                      !.timeRemaining = @ - 1]
      w2 == emit(w1, [type |-> "game-timer-update", to |-> "main",
                      timeRemaining |-> w1.timeRemaining,
                      minutes |-> w1.timeRemaining \div 60,
                      seconds |-> w1.timeRemaining % 60])
  IN  IF w2.timeRemaining <= 0
        THEN checkGameEnd(clearInterval(w2, w2.gameTimer))
        ELSE w2

----------------------------------------------------------------------------
(* Actions: one per callback *)

World ==
  [players |-> players, order |-> order, killCooldowns |-> killCooldowns,
   gameTimer |-> gameTimer, timeRemaining |-> timeRemaining,
   intervals |-> intervals, meetingTimeouts |-> meetingTimeouts,
   lobbyResets |-> lobbyResets, victim |-> victim, out |-> <<>>]

(* The world after a callback.  A callback that neither writes nor emits   *)
(* (its guard failed) is a stuttering step.  The two caps bound the timers *)
(* that can be pending at once.                                            *)
Apply(w, op, by, arg) ==
  /\ w # World
  /\ Len(w.meetingTimeouts) <= MaxMeetings
  /\ Len(w.lobbyResets) <= MaxResets
  /\ players' = w.players
  /\ order' = w.order
  /\ killCooldowns' = w.killCooldowns
  /\ gameTimer' = w.gameTimer
  /\ timeRemaining' = w.timeRemaining
  /\ intervals' = w.intervals
  /\ meetingTimeouts' = w.meetingTimeouts
  /\ lobbyResets' = w.lobbyResets
  /\ victim' = w.victim
  /\ out' = w.out
  /\ last' = [op |-> op, by |-> by, arg |-> arg]

JoinLobby(s, name, tasks) ==
  /\ s \notin closed
  /\ Apply(joinLobby(World, s, name, tasks), "join-lobby", s, name)
  /\ UNCHANGED closed

StartGame(impostorIndices) ==
  /\ closed # Sockets
  /\ Apply(startGame(World, impostorIndices), "start-game", Null, Null)
  /\ UNCHANGED closed

SaveTaskProgress(s, tp) ==
  /\ s \notin closed
  /\ Apply(saveTaskProgress(World, s, tp), "save-task-progress", s, Null)
  /\ UNCHANGED closed

TaskCompleted(s, n) ==
  /\ s \notin closed
  /\ Apply(taskCompleted(World, s, n), "task-completed", s, Null)
  /\ UNCHANGED closed

AttemptSabotage(s, t) ==
  /\ s \notin closed
  /\ Apply(attemptSabotage(World, s, t), "attempt-sabotage", s, t)
  /\ UNCHANGED closed

ReportBody(s) ==
  /\ s \notin closed
  /\ Apply(reportBody(World, s), "report-body", s, Null)
  /\ UNCHANGED closed

EmergencyMeeting(s) ==
  /\ s \notin closed
  /\ Apply(emergencyMeeting(World, s), "emergency-meeting", s, Null)
  /\ UNCHANGED closed

SubmitVote(s, votedFor) ==
  /\ s \notin closed
  /\ Apply(submitVote(World, s, votedFor), "submit-vote", s, votedFor)
  /\ UNCHANGED closed

Disconnect(s) ==
  /\ s \notin closed
  /\ Apply(disconnect(World, s), "disconnect", s, Null)
  /\ closed' = closed \cup {s}

(* timers fire when their wait is over; the clock does not pass a due timer *)
waits ==
  {t.wait : t \in intervals}
    \cup Range(meetingTimeouts)
    \cup {lobbyResets[i].wait : i \in DOMAIN lobbyResets}

cooling == \E s \in DOMAIN killCooldowns : killCooldowns[s] < CooldownMs

RoundTick ==
  /\ \E t \in intervals : t.wait = 0 /\ Apply(roundTick(World, t), "round-tick", Null, Null)
  /\ UNCHANGED closed

MeetingTimeout ==
  /\ meetingTimeouts # <<>>
  /\ Head(meetingTimeouts) = 0
  /\ Apply(meetingTimeout(World), "meeting-timeout", Null, Null)
  /\ UNCHANGED closed

LobbyReset ==
  /\ lobbyResets # <<>>
  /\ Head(lobbyResets).wait = 0
  /\ Apply(lobbyReset(World), "lobby-reset", Null, Null)
  /\ UNCHANGED closed

(* d clock units pass; time passes only while something is waiting for it *)
Advance(d) ==
  /\ \A t \in waits : t >= d
  /\ waits # {} \/ cooling
  /\ intervals' = {[t EXCEPT !.wait = @ - d] : t \in intervals}
  /\ meetingTimeouts' = [i \in DOMAIN meetingTimeouts |-> meetingTimeouts[i] - d]
  /\ lobbyResets' = [i \in DOMAIN lobbyResets |->
                       [lobbyResets[i] EXCEPT !.wait = @ - d]]
  /\ killCooldowns' = [s \in {q \in DOMAIN killCooldowns : killCooldowns[q] + d < CooldownMs}
                         |-> killCooldowns[s] + d]
  /\ victim' = [s \in DOMAIN killCooldowns' |-> victim[s]]
  /\ out' = <<>>
  /\ last' = [op |-> "advance", by |-> Null, arg |-> Null]
  /\ UNCHANGED <<players, order, gameTimer, timeRemaining, closed>>

----------------------------------------------------------------------------
(* Inputs and initial states *)

(* Socket ids are interchangeable: a socket that has not joined yet joins  *)
(* only after the sockets before it in SocketOrder have                    *)
SocketOrder == <<"A", "B", "C", "D", "E">>
rank(s) == CHOOSE i \in DOMAIN SocketOrder : SocketOrder[i] = s
mayJoin(s) == \A q \in Sockets : rank(q) < rank(s) => q \in DOMAIN players \cup closed

inLobby == gameTimer = 0 /\ lobbyResets = <<>>
inRound == gameTimer # 0

(* join-lobby inputs: a name with an outcome of getRandomTasks *)
JoinInputs == {<<"ann", <<"network", "phishing", "firewall">>>>,
               <<"bob", <<"backup", "network", "encryption">>>>}
FirstJoin == <<"ann", <<"network", "phishing", "firewall">>>>
savedProgress(n) ==
  [tasksCompleted |-> n,
   task1 |-> [completed |-> n >= 1, data |-> IF n >= 1 THEN "log" ELSE Null],
   task2 |-> [completed |-> n >= 2, data |-> IF n >= 2 THEN "log" ELSE Null],
   task3 |-> [completed |-> n >= 3, data |-> IF n >= 3 THEN "log" ELSE Null]]

(* the server after construction, with the sockets of pool still to connect *)
InitWith(pool) ==
  /\ players = << >>
  /\ order = << >>
  /\ killCooldowns = << >>
  /\ gameTimer = 0
  /\ timeRemaining = 300
  /\ intervals = {}
  /\ meetingTimeouts = << >>
  /\ lobbyResets = << >>
  /\ closed = Sockets \ pool
  /\ out = << >>
  /\ last = [op |-> "listen", by |-> Null, arg |-> Null]
  /\ victim = << >>

----------------------------------------------------------------------------
(* Spec: the registry.  Three sockets join, join again and disconnect at   *)
(* any time, rounds start at any time, crewmates save task progress.       *)

Init == InitWith(Lobby3)

Next ==
  \/ \E s \in Lobby3, j \in JoinInputs : mayJoin(s) /\ JoinLobby(s, j[1], j[2])
  \/ \E ix \in impostorDraws(Len(order)) : StartGame(ix)
  \/ \E s \in Lobby3 : SaveTaskProgress(s, savedProgress(1))
  \/ \E s \in DOMAIN players : Disconnect(s)
  \/ RoundTick
  \/ LobbyReset
  \/ Advance(MsPerSec)

Spec == Init /\ [][Next]_vars

(* a socket joins once, from the lobby *)
JoinOnce(pool) ==
  \E s \in pool \ DOMAIN players :
     mayJoin(s) /\ inLobby /\ JoinLobby(s, FirstJoin[1], FirstJoin[2])

----------------------------------------------------------------------------
(* SpecPlay: a round of three.  A, B and C join and start rounds from the  *)
(* lobby; the impostor sabotages A, C reports, votes go to B.  Clients go  *)
(* on calling after the round has ended.                                   *)

NextPlay ==
  \/ JoinOnce(Lobby3)
  \/ \E ix \in impostorDraws(Len(order)) : inLobby /\ StartGame(ix)
  \/ \E s \in Lobby3 : AttemptSabotage(s, "A")
  \/ ReportBody("C")
  \/ \E s \in Lobby3 : SubmitVote(s, "B")
  \/ RoundTick
  \/ MeetingTimeout
  \/ LobbyReset
  \/ Advance(MsPerSec)

SpecPlay == Init /\ [][NextPlay]_vars

----------------------------------------------------------------------------
(* SpecWin: the ways a round of three ends.  Rounds start from the lobby;  *)
(* while the round timer runs crewmates complete their tasks and meetings  *)
(* eject A or B; the timers run on after the round has ended.              *)

NextWin ==
  \/ JoinOnce(Lobby3)
  \/ \E ix \in impostorDraws(Len(order)) : inLobby /\ StartGame(ix)
  \/ \E s \in Lobby3 : inRound /\ TaskCompleted(s, TotalTasks)
  \/ inRound /\ EmergencyMeeting("A")
  \/ \E s \in Lobby3, v \in {"A", "B"} : inRound /\ SubmitVote(s, v)
  \/ RoundTick
  \/ MeetingTimeout
  \/ LobbyReset
  \/ Advance(MsPerSec)

SpecWin == Init /\ [][NextWin]_vars

----------------------------------------------------------------------------
(* SpecVote: meetings of four.  While the round timer runs A calls         *)
(* meetings and everybody votes for A or B, or not at all.                 *)

Lobby4 == {"A", "B", "C", "D"}
InitVote == InitWith(Lobby4)

NextVote ==
  \/ JoinOnce(Lobby4)
  \/ \E ix \in impostorDraws(Len(order)) : inLobby /\ StartGame(ix)
  \/ inRound /\ EmergencyMeeting("A")
  \/ \E s \in Lobby4, v \in {"A", "B"} : inRound /\ SubmitVote(s, v)
  \/ RoundTick
  \/ MeetingTimeout
  \/ LobbyReset
  \/ Advance(MsPerSec)

SpecVote == InitVote /\ [][NextVote]_vars

----------------------------------------------------------------------------
(* SpecCooldown: sabotage in a round of five, on a clock of single units.  *)

InitCooldown == InitWith(Sockets)

NextCooldown ==
  \/ JoinOnce(Sockets)
  \/ \E ix \in impostorDraws(Len(order)) : inLobby /\ StartGame(ix)
  \/ \E s \in Sockets, t \in {"A", "B"} : AttemptSabotage(s, t)
  \/ RoundTick
  \/ LobbyReset
  \/ Advance(1)

SpecCooldown == InitCooldown /\ [][NextCooldown]_vars


----------------------------------------------------------------------------
(* Properties *)

emitted(type) == {i \in DOMAIN out : out[i].type = type}
Impostors == {p \in DOMAIN players : players[p].role = "impostor"}
Crewmates == {p \in DOMAIN players : players[p].role = "crewmate"}
Alive == {p \in DOMAIN players : players[p].isAlive}

(* C1: right after start-game with N >= 1 players there is exactly one     *)
(* impostor if N >= 2 and none if N = 1, everybody else is a crewmate, and *)
(* everybody is alive with accumulator 0 and no vote.                      *)
C1_RolesAtRoundStart ==
  last.op = "start-game" =>
    /\ Len(order) >= 1
    /\ Cardinality(Impostors) = (IF Len(order) >= 2 THEN 1 ELSE 0)
    /\ \A p \in DOMAIN players \ Impostors : players[p].role = "crewmate"
    /\ \A p \in DOMAIN players :
         /\ players[p].isAlive
         /\ players[p].sabotageCount = 0
         /\ players[p].vote = Null

C1_Witness ==
  /\ last.op = "start-game"
  /\ Len(order) = 3
  /\ Cardinality(Impostors) = 1
  /\ Cardinality(Crewmates) = 2

(* C6: in a round with an impostor the win evaluation is the first rule    *)
(* that matches, in the order: no impostor alive; alive impostors >= alive *)
(* crewmates; every crewmate has 3 tasks completed; no time left.          *)
WinRules ==
  << [when   |-> Impostors \cap Alive = {},
      winner |-> "crewmates", reason |-> "All impostors eliminated"],
     [when   |-> Cardinality(Impostors \cap Alive) >= Cardinality(Crewmates \cap Alive),
      winner |-> "impostor", reason |-> "Impostors outnumber crewmates"],
     [when   |-> \A p \in Crewmates : players[p].taskProgress.tasksCompleted >= 3,
      winner |-> "crewmates", reason |-> "All tasks completed"],
     [when   |-> timeRemaining <= 0,
      winner |-> "impostor", reason |-> "Time ran out"] >>

FirstMatch ==
  IF \E i \in 1..4 : WinRules[i].when
    THEN LET i == CHOOSE k \in 1..4 :
                    WinRules[k].when /\ \A j \in 1..(k - 1) : ~WinRules[j].when
         IN  [winner |-> WinRules[i].winner, reason |-> WinRules[i].reason]
    ELSE [winner |-> Null, reason |-> ""]

C6_FirstMatchingRule ==
  Impostors # {} =>
    /\ gameResult(World) = FirstMatch
    /\ \A i \in emitted("game-ended") :
          out[i].winners = FirstMatch.winner /\ out[i].reason = FirstMatch.reason
    /\ last.op = "task-completed" =>
          (emitted("game-ended") # {} <=> FirstMatch.winner # Null)

C6_Witness ==
  /\ Impostors # {}
  /\ Impostors \cap Alive = {}
  /\ \E p \in Crewmates : players[p].taskProgress.tasksCompleted < 3
  /\ \E i \in emitted("game-ended") :
        out[i].winners = "crewmates" /\ out[i].reason = "All impostors eliminated"

(* C8: when a registered player disconnects during an active round, the    *)
(* round timer is stopped and its handle cleared if the registry becomes   *)
(* empty; otherwise the timer, its handle and the remaining time are left  *)
(* as they were and the new roster is broadcast.                           *)
C8_DisconnectTimer ==
  [][(last'.op = "disconnect" /\ gameTimer # 0) =>
       IF DOMAIN players' = {}
         THEN gameTimer' = 0 /\ intervals' = {}
         ELSE /\ gameTimer' = gameTimer
              /\ intervals' = intervals
              /\ timeRemaining' = timeRemaining
              /\ \E i \in DOMAIN out' :
                    out'[i].type = "player-list-update" /\ out'[i].players = order']_vars

C8_Witness ==
  /\ last.op = "disconnect"
  /\ Len(order) >= 1
  /\ gameTimer # 0
  /\ \E t \in intervals : t.h = gameTimer
  /\ emitted("player-list-update") # {}

(* C9: a join from an identity that is already in the registry fails and   *)
(* leaves the existing record (name, role, alive flag, accumulator, vote,  *)
(* tasks, task state) as it was.                                           *)
C9_DuplicateJoinRejected ==
  [][(last'.op = "join-lobby" /\ last'.by \in DOMAIN players) =>
       players'[last'.by] = players[last'.by]]_vars

(* C10: start-game zeroes every player's tasksCompleted and completed      *)
(* flags but keeps the payloads saved by save-task-progress, the ones      *)
(* restore-task-progress then sends to a crewmate.                         *)
C10_PayloadsKept ==
  [][last'.op = "start-game" =>
       /\ \A p \in DOMAIN players :
            /\ players'[p].taskProgress.tasksCompleted = 0
            /\ ~players'[p].taskProgress.task1.completed
            /\ ~players'[p].taskProgress.task2.completed
            /\ ~players'[p].taskProgress.task3.completed
            /\ players'[p].taskProgress.task1.data = players[p].taskProgress.task1.data
            /\ players'[p].taskProgress.task2.data = players[p].taskProgress.task2.data
            /\ players'[p].taskProgress.task3.data = players[p].taskProgress.task3.data
       /\ \A i \in DOMAIN out' :
            out'[i].type = "restore-task-progress" =>
              out'[i].taskProgress.task1.data = players[out'[i].to].taskProgress.task1.data]_vars

(* the events of one type among those of the step that is being taken *)
sent(type) == {i \in DOMAIN out' : out'[i].type = type}

(* C2: an attempt-sabotage increments the target's accumulator only while  *)
(* the target is an alive crewmate; the target goes from alive to not      *)
(* alive exactly on the attempt that brings the accumulator to 3; and the  *)
(* elimination (player-killed, kill record) happens once per target: it is *)
(* never triggered for a target that was eliminated before.                *)
C2_EliminatedOnce ==
  [][(last'.op = "attempt-sabotage" /\ last'.arg \in DOMAIN players) =>
       LET t == last'.arg
       IN  /\ players'[t].sabotageCount # players[t].sabotageCount =>
                /\ players[t].role = "crewmate" /\ players[t].isAlive
                /\ players'[t].sabotageCount = players[t].sabotageCount + 1
           /\ (players[t].isAlive /\ ~players'[t].isAlive) <=>
                (players[t].sabotageCount < KillThreshold
                   /\ players'[t].sabotageCount = KillThreshold)
           /\ sent("player-killed") # {} =>
                (players[t].isAlive /\ players[t].sabotageCount < KillThreshold)]_vars

(* C3: an impostor s attempts sabotage on a crewmate t that is not the one *)
(* s killed last and whose accumulator is at the elimination threshold.    *)
(* d clock units after the kill, with d inside the cooldown window, the    *)
(* only effect is one kill-cooldown event to s whose remaining seconds are *)
(* the cooldown left, rounded up.  With the window over, the accumulator   *)
(* is incremented and sabotage-attempt is broadcast.                       *)
C3_CooldownGuard ==
  [][(/\ last'.op = "attempt-sabotage"
      /\ last'.by \in Impostors
      /\ last'.arg \in Crewmates
      /\ players[last'.arg].sabotageCount >= KillThreshold) =>
       LET s == last'.by
           t == last'.arg
       IN  IF s \in DOMAIN killCooldowns
             THEN victim[s] # t =>
                    /\ Len(out') = 1
                    /\ out'[1].type = "kill-cooldown"
                    /\ out'[1].to = s
                    /\ (out'[1].remaining - 1) * MsPerSec < CooldownMs - killCooldowns[s]
                    /\ out'[1].remaining * MsPerSec >= CooldownMs - killCooldowns[s]
                    /\ UNCHANGED <<players, order, killCooldowns, gameTimer, timeRemaining,
                                   intervals, meetingTimeouts, lobbyResets>>
             ELSE /\ players'[t].sabotageCount = players[t].sabotageCount + 1
                  /\ \E i \in sent("sabotage-attempt") :
                        /\ out'[i].to = "main"
                        /\ out'[i].target = t
                        /\ out'[i].sabotageCount = players'[t].sabotageCount]_vars

(* a rejected attempt on another target, made a fraction of a second into  *)
(* the cooldown *)
C3_Witness ==
  /\ last.op = "attempt-sabotage"
  /\ last.by \in DOMAIN killCooldowns
  /\ killCooldowns[last.by] % MsPerSec # 0
  /\ victim[last.by] # last.arg
  /\ players[last.arg].sabotageCount >= KillThreshold
  /\ emitted("kill-cooldown") # {}

(* the ballots that a resolution in the step being taken counts *)
Ballots ==
  [p \in DOMAIN players |->
     IF last'.op = "submit-vote" /\ p = last'.by THEN last'.arg ELSE players[p].vote]
Targets == {Ballots[p] : p \in DOMAIN players} \ {Null}
Count(t) == Cardinality({p \in DOMAIN players : Ballots[p] = t})
Top == {t \in Targets : \A u \in Targets : Count(u) <= Count(t)}
Resolving ==
  \/ last'.op = "meeting-timeout" /\ DOMAIN players # {}
  \/ /\ last'.op = "submit-vote"
     /\ \A p \in DOMAIN players : players'[p].vote = Null
aliveSame(P) == \A p \in P : players'[p].isAlive = players[p].isAlive

(* C5: at a resolution, if two or more targets share the highest count no  *)
(* alive flag changes and no-one-ejected is broadcast with tie = true; if  *)
(* one target, in the registry, has the highest count alone, that player   *)
(* and no other is set not alive and player-ejected is broadcast; without  *)
(* ballots no-one-ejected is broadcast with tie = false.                   *)
C5_Resolution ==
  [][Resolving =>
       /\ Cardinality(Top) >= 2 =>
            /\ aliveSame(DOMAIN players)
            /\ sent("player-ejected") = {}
            /\ \E i \in sent("no-one-ejected") :
                  out'[i].tie /\ out'[i].votes = [t \in Targets |-> Count(t)]
       /\ \A t \in DOMAIN players : Top = {t} =>
            /\ ~players'[t].isAlive
            /\ aliveSame(DOMAIN players \ {t})
            /\ sent("no-one-ejected") = {}
            /\ \E i \in sent("player-ejected") :
                  out'[i].playerId = t /\ out'[i].votes = [u \in Targets |-> Count(u)]
       /\ Targets = {} =>
            /\ aliveSame(DOMAIN players)
            /\ sent("player-ejected") = {}
            /\ \E i \in sent("no-one-ejected") : ~out'[i].tie]_vars

(* four ballots, two for A and two for B *)
C5_Witness ==
  /\ last.op = "submit-vote"
  /\ \E i \in emitted("no-one-ejected") :
        out[i].tie /\ out[i].votes = [t \in {"A", "B"} |-> 2]

MaxCalls == 2                        \* size of the call sets with repeated voters

(* the outcome a world has broadcast: the ejected identity, or no ejection *)
(* with its tie flag                                                       *)
outcomeOf(w) ==
  LET res == {i \in DOMAIN w.out : w.out[i].type \in {"player-ejected", "no-one-ejected"}}
      i   == CHOOSE k \in res : \A j \in res : k <= j
  IN  IF res = {} THEN [ejected |-> Null, tie |-> FALSE]
      ELSE IF w.out[i].type = "player-ejected"
        THEN [ejected |-> w.out[i].playerId, tie |-> FALSE]
        ELSE [ejected |-> Null, tie |-> w.out[i].tie]

resolved(w) ==
  \E i \in DOMAIN w.out : w.out[i].type \in {"player-ejected", "no-one-ejected"}

(* the outcomes of a meeting over the orders in which the server can       *)
(* process the calls: the first resolution, which is the meeting's timeout *)
(* if the calls bring none                                                 *)
RECURSIVE Outcomes(_, _)
Outcomes(w, calls) ==
  IF resolved(w) THEN {outcomeOf(w)}
  ELSE IF calls = {} THEN {outcomeOf(processVotes(w))}
  ELSE UNION {Outcomes(submitVote(w, c.by, c.votedFor), calls \ {c}) : c \in calls}

MeetingOpen == last.op = "emergency-meeting"
Calls == [by : DOMAIN players, votedFor : {"A", "B"}]

(* C4 as stated: any set of calls, a voter may call more than once *)
C4_AnyCalls ==
  MeetingOpen =>
    \A calls \in SUBSET Calls :
       Cardinality(calls) <= MaxCalls => Cardinality(Outcomes(World, calls)) = 1

(* C4: the outcome of a meeting is the same in whatever order the server   *)
(* processes a set of submit-vote calls in which every voter calls at most *)
(* once.                                                                   *)
C4_OneCallPerVoter ==
  MeetingOpen =>
    \A voters \in SUBSET DOMAIN players :
       \A choice \in [voters -> {"A", "B"}] :
          Cardinality(Outcomes(World, {[by |-> p, votedFor |-> choice[p]] : p \in voters})) = 1

(* an early resolution on three ballots that differ *)
C4_Witness ==
  /\ last.op = "submit-vote"
  /\ \E i \in emitted("player-ejected") :
        /\ Cardinality(DOMAIN out[i].voters) >= 3
        /\ Cardinality(DOMAIN out[i].votes) = 2

(* the scenario of three: A, B and C are registered, B is the impostor *)
Trio ==
  /\ order = <<"A", "B", "C">>
  /\ Impostors = {"B"}
  /\ Crewmates = {"A", "C"}

ended(winners, reason) ==
  \E i \in sent("game-ended") : out'[i].winners = winners /\ out'[i].reason = reason

(* B's third hit on A in a running round, B not in a cooldown *)
KillStep ==
  /\ Trio /\ gameTimer # 0
  /\ last'.op = "attempt-sabotage" /\ last'.by = "B" /\ last'.arg = "A"
  /\ Alive = {"A", "B", "C"}
  /\ "B" \notin DOMAIN killCooldowns
  /\ players["A"].sabotageCount = KillThreshold - 1

Killed ==
  /\ ~players'["A"].isAlive
  /\ \E i \in sent("player-killed") : out'[i].playerId = "A" /\ out'[i].killer = "B"
  /\ \E i \in sent("kill-cooldown-active") :
        out'[i].to = "B" /\ out'[i].duration = CooldownSeconds
  /\ killCooldowns'["B"] = 0

(* C reports with A dead *)
ReportStep ==
  /\ Trio /\ Alive = {"B", "C"}
  /\ last'.op = "report-body" /\ last'.by = "C"

MeetingOpened ==
  /\ \E i \in sent("emergency-meeting-started") : out'[i].players = <<"B", "C">>
  /\ \A p \in DOMAIN players : players'[p].vote = Null
  /\ Len(meetingTimeouts') = Len(meetingTimeouts) + 1

(* the second of the votes of B and C for B *)
VoteStep ==
  /\ Trio /\ Alive = {"B", "C"}
  /\ last'.op = "submit-vote" /\ last'.by \in {"B", "C"} /\ last'.arg = "B"
  /\ \A p \in {"B", "C"} \ {last'.by} : players[p].vote = "B"

Ejected ==
  /\ ~players'["B"].isAlive
  /\ \E i \in sent("player-ejected") : out'[i].playerId = "B" /\ out'[i].role = "impostor"
  /\ ended("crewmates", "All impostors eliminated")
  /\ gameTimer' = 0
  /\ Len(lobbyResets') = Len(lobbyResets) + 1

(* the grace delay of a round that ended is over *)
GraceStep == last'.op = "lobby-reset"

BackInLobby ==
  /\ sent("return-to-lobby") # {}
  /\ gameTimer' = 0
  /\ \A p \in DOMAIN players' :
        /\ players'[p].role = Null
        /\ players'[p].isAlive
        /\ players'[p].sabotageCount = 0
        /\ players'[p].vote = Null
        /\ players'[p].taskProgress = freshProgress

(* C7 as stated: after the kill the round is still in progress *)
C7_RoundGoesOnAfterKill ==
  [][/\ KillStep => (Killed /\ gameTimer' # 0 /\ sent("game-ended") = {})
     /\ ReportStep => MeetingOpened
     /\ VoteStep => Ejected
     /\ GraceStep => BackInLobby]_vars

(* C7: B's third hit on A makes A not alive, broadcasts the kill, gives B  *)
(* the cooldown and ends the round for the impostor, who now is not        *)
(* outnumbered; C's report still opens a meeting with roster B, C; the     *)
(* second vote for B ejects B at once and ends the round again, for the    *)
(* crewmates; each grace delay ends with return-to-lobby and every player  *)
(* reset.                                                                  *)
C7_Scenario ==
  [][/\ KillStep => (/\ Killed
                     /\ ended("impostor", "Impostors outnumber crewmates")
                     /\ gameTimer' = 0
                     /\ Len(lobbyResets') = Len(lobbyResets) + 1)
     /\ ReportStep => MeetingOpened
     /\ VoteStep => Ejected
     /\ GraceStep => BackInLobby]_vars

(* B is ejected while the reset of the round that the kill ended is pending *)
C7_Witness ==
  /\ last.op = "submit-vote"
  /\ order = <<"A", "B", "C">>
  /\ "B" \in DOMAIN victim /\ victim["B"] = "A"
  /\ emitted("player-ejected") # {}
  /\ \E i \in emitted("game-ended") : out[i].winners = "crewmates"
  /\ Len(lobbyResets) = 2
  /\ Len(meetingTimeouts) = 1

----------------------------------------------------------------------------
(* SpecRestart: rounds of three that are started again at any time, also   *)
(* during the grace delay of the round before.  The impostor sabotages A.  *)

NextRestart ==
  \/ JoinOnce(Lobby3)
  \/ \E ix \in impostorDraws(Len(order)) : StartGame(ix)
  \/ \E s \in Lobby3 : AttemptSabotage(s, "A")
  \/ RoundTick
  \/ LobbyReset
  \/ Advance(MsPerSec)

SpecRestart == Init /\ [][NextRestart]_vars

(* C11: while a round is running, which is after its start and before it   *)
(* has ended, no step but a round start revives a player or changes a      *)
(* role: neither an inbound action, a tick, nor a lobby reset that an      *)
(* earlier round has scheduled.                                            *)
C11_EliminationMonotonic ==
  [][(gameTimer # 0 /\ last'.op # "start-game") =>
       \A p \in DOMAIN players \cap DOMAIN players' :
          /\ players'[p].role = players[p].role
          /\ players[p].isAlive \/ ~players'[p].isAlive]_vars

(* an attempt-sabotage step of an impostor on a crewmate *)
SabotageStep ==
  /\ last'.op = "attempt-sabotage"
  /\ last'.by \in Impostors
  /\ last'.arg \in Crewmates

(* C12 as stated: below the elimination threshold no attempt is rejected *)
C12_GuardAtKillThreshold ==
  [][(SabotageStep /\ players[last'.arg].sabotageCount < KillThreshold) =>
       /\ sent("kill-cooldown") = {}
       /\ players'[last'.arg].sabotageCount = players[last'.arg].sabotageCount + 1]_vars

(* C12: the cooldown guard engages from accumulator 2 on, one below the    *)
(* elimination threshold.  Below 2 an attempt is never rejected and always *)
(* increments the accumulator; from 2 on it is rejected with a cooldown    *)
(* notice, and changes nothing, exactly when the impostor's cooldown runs. *)
C12_GuardBelowThreshold ==
  [][SabotageStep =>
       LET s == last'.by
           t == last'.arg
       IN  IF players[t].sabotageCount < GuardThreshold
             THEN /\ sent("kill-cooldown") = {}
                  /\ players'[t].sabotageCount = players[t].sabotageCount + 1
             ELSE IF s \in DOMAIN killCooldowns
               THEN /\ sent("kill-cooldown") # {}
                    /\ sent("sabotage-attempt") = {}
                    /\ players' = players
               ELSE /\ sent("kill-cooldown") = {}
                    /\ players'[t].sabotageCount = players[t].sabotageCount + 1]_vars

(* the hit that would kill is rejected during the cooldown *)
C12_Witness ==
  /\ last.op = "attempt-sabotage"
  /\ emitted("kill-cooldown") # {}
  /\ players[last.arg].sabotageCount = GuardThreshold
  /\ players[last.arg].isAlive

(* C13: a sabotage that eliminates its target is accepted only when the    *)
(* impostor's previous kill lies a whole cooldown window back, and it      *)
(* starts the window anew.                                                 *)
C13_KillsApart ==
  [][sent("player-killed") # {} =>
       /\ last'.op = "attempt-sabotage"
       /\ last'.by \notin DOMAIN killCooldowns
       /\ last'.by \in DOMAIN killCooldowns'
       /\ killCooldowns'[last'.by] = 0]_vars

(* the second kill of an impostor in a round *)
C13_Witness ==
  /\ last.op = "attempt-sabotage"
  /\ emitted("player-killed") # {}
  /\ players[last.arg].sabotageCount = KillThreshold
  /\ \E q \in DOMAIN players \ {last.arg} :
        ~players[q].isAlive /\ players[q].sabotageCount = KillThreshold

(* C14: in a round without an impostor (a round of one) the win evaluation *)
(* never gives crewmates / impostors eliminated, neither as its result nor *)
(* in a game-ended event, and gives no winner while a crewmate has tasks   *)
(* left and time remains.                                                  *)
C14_SoloRoundGoesOn ==
  (Impostors = {} /\ Crewmates # {}) =>
    /\ gameResult(World).reason # "All impostors eliminated"
    /\ \A i \in emitted("game-ended") : out[i].reason # "All impostors eliminated"
    /\ (/\ \E p \in Crewmates : players[p].taskProgress.tasksCompleted < TotalTasks
        /\ timeRemaining > 0) => gameResult(World).winner = Null

----------------------------------------------------------------------------
(* SpecLeave: meetings of three in which A and B vote for C, and C         *)
(* disconnects at any time.                                                *)

NextLeave ==
  \/ JoinOnce(Lobby3)
  \/ \E ix \in impostorDraws(Len(order)) : inLobby /\ StartGame(ix)
  \/ inRound /\ EmergencyMeeting("A")
  \/ \E s \in {"A", "B"} : inRound /\ SubmitVote(s, "C")
  \/ Disconnect("C")
  \/ RoundTick
  \/ MeetingTimeout
  \/ LobbyReset
  \/ Advance(MsPerSec)

SpecLeave == Init /\ [][NextLeave]_vars

(* C15: every resolution broadcasts exactly one outcome event and leaves   *)
(* every vote cleared.  A target that is not in the registry is not        *)
(* ejected and changes no alive flag, and when no registered player holds  *)
(* the highest count alone the outcome is no-one-ejected.                  *)
C15_OneOutcome ==
  [][Resolving =>
       /\ Cardinality(sent("player-ejected") \cup sent("no-one-ejected")) = 1
       /\ \A p \in DOMAIN players' : players'[p].vote = Null
       /\ \A i \in sent("player-ejected") : out'[i].playerId \in DOMAIN players
       /\ (\A t \in DOMAIN players : Top # {t}) =>
            /\ aliveSame(DOMAIN players)
            /\ sent("no-one-ejected") # {}]_vars

(* roles are assigned: a round was started and has not been reset *)
RolesAssigned == \E p \in DOMAIN players : players[p].role # Null
NoRound == gameTimer = 0 /\ ~RolesAssigned

(* C16: game-ended is broadcast for a started round only while its timer   *)
(* runs, once, and the step stops the timer and schedules one lobby reset: *)
(* a round that has ended does not end again, whatever arrives during its  *)
(* grace delay.                                                            *)
C16_EndsOnce ==
  [][(RolesAssigned /\ sent("game-ended") # {}) =>
       /\ gameTimer # 0
       /\ Cardinality(sent("game-ended")) = 1
       /\ gameTimer' = 0 /\ intervals' = {}
       /\ Len(lobbyResets') = Len(lobbyResets) + 1]_vars

(* C20: where no round is in progress (no timer handle, every role         *)
(* unassigned) no step but a round start broadcasts game-ended or          *)
(* schedules a lobby reset.                                                *)
C20_NoEndInLobby ==
  [][(NoRound /\ last'.op # "start-game") =>
       /\ sent("game-ended") = {}
       /\ Len(lobbyResets') <= Len(lobbyResets)]_vars

InitialTime == 300                   \* timeRemaining before the first round

(* C17: at most one round timer is live, and it is the one whose handle    *)
(* the session holds.  A round start leaves exactly one and sets the       *)
(* remaining time to the full duration; a tick takes exactly 1 off; no     *)
(* other step changes the remaining time, which stays between 0 and the    *)
(* full duration.                                                          *)
C17_OneTimer ==
  [][/\ Cardinality(intervals') <= 1
     /\ \A t \in intervals' : t.h = gameTimer'
     /\ timeRemaining' \in 0..RoundSeconds \/ timeRemaining' = InitialTime
     /\ last'.op = "start-game" =>
          (timeRemaining' = RoundSeconds /\ Cardinality(intervals') = 1)
     /\ last'.op = "round-tick" => timeRemaining' = timeRemaining - 1
     /\ last'.op \notin {"start-game", "round-tick"} =>
          timeRemaining' = timeRemaining]_vars

(* the countdown of a round has reached zero and stopped itself *)
C17_Witness ==
  /\ last.op = "round-tick"
  /\ timeRemaining = 0
  /\ intervals = {}
  /\ gameTimer = 0

outcomes == emitted("player-ejected") \cup emitted("no-one-ejected")
outcomesSent == sent("player-ejected") \cup sent("no-one-ejected")

(* C18: votes are resolved only while a meeting is open, which is while    *)
(* its deferred timer is pending, and a meeting is resolved once: the      *)
(* timer of a meeting that the last vote has just resolved brings no       *)
(* second outcome.                                                         *)
C18_ResolvedOncePerMeeting ==
  [][/\ outcomesSent # {} => meetingTimeouts # <<>>
     /\ (/\ last.op = "submit-vote" /\ outcomes # {}
         /\ last'.op = "meeting-timeout") => outcomesSent = {}]_vars

----------------------------------------------------------------------------
(* SpecLive: rounds of up to three under a fair event loop.  A stays; C    *)
(* may disconnect; crewmates complete their tasks while the round runs; a  *)
(* round starts from the lobby only.  The runtime fires a timer that is    *)
(* due, and time passes.                                                   *)

NextLive ==
  \/ JoinOnce(Lobby3)
  \/ \E ix \in impostorDraws(Len(order)) : inLobby /\ StartGame(ix)
  \/ \E s \in Lobby3 : inRound /\ TaskCompleted(s, TotalTasks)
  \/ Disconnect("C")
  \/ RoundTick
  \/ LobbyReset
  \/ Advance(MsPerSec)

SpecLive ==
  /\ Init /\ [][NextLive]_vars
  /\ WF_vars(RoundTick)
  /\ WF_vars(LobbyReset)
  /\ WF_vars(Advance(MsPerSec))

(* C19: a round that runs comes to its end, game-ended is broadcast, and   *)
(* after it return-to-lobby; the tick that brings the countdown to zero    *)
(* stops the timer and ends the round with a winner.                       *)
C19_RoundEnds ==
  /\ inRound ~> (emitted("game-ended") # {})
  /\ (emitted("game-ended") # {}) ~> (emitted("return-to-lobby") # {})
  /\ [][(last'.op = "round-tick" /\ timeRemaining' <= 0) =>
          /\ intervals' = {} /\ gameTimer' = 0
          /\ \E i \in sent("game-ended") : out'[i].winners # Null]_vars

(* the countdown ran out with no other rule matching *)
C19_Witness ==
  /\ last.op = "round-tick"
  /\ timeRemaining = 0
  /\ \E i \in emitted("game-ended") :
        out[i].winners = "impostor" /\ out[i].reason = "Time ran out"

====
